---- MODULE Spec2Model ----
(***************************************************************************)
(* The retrieval-augmented guide pipeline of Samsung_Prism.                *)
(*                                                                         *)
(* Three programs of the repository define generate_guide_from_rag:        *)
(*   "backend"   src/backend/main.py, served by src/backend/server.py      *)
(*   "root"      src/main.py (single-shot prompt, find_best_images)        *)
(*   "local_llm" src/backend/main_local_llm.py (no image matching)         *)
(* The variable `variant` says which program the process runs.             *)
(*                                                                         *)
(* Python values are modelled as tagged records (JSON values); a dict is a *)
(* function from its keys to values, so a missing key is a key outside the *)
(* DOMAIN.  Similarity scores are integers in hundredths (0.35 is 35).     *)
(***************************************************************************)
EXTENDS Integers, Sequences, FiniteSets, TLC

VARIABLES
    variant,            \* which program runs in the process
    image_db_file,      \* what IMAGE_DB_PATH holds on disk at startup
    IMAGE_KB,           \* module-level list of image records
    IMAGE_EMBEDDINGS,   \* module-level list of embeddings (one per caption)
    DEFAULT_MODE,       \* server.py: os.getenv("LLM_MODE", "CLOUD").upper()
    GROQ_API_KEY,       \* backend/main.py: TRUE iff the key is configured
    pc,                 \* position of the (single-threaded) process
    request,            \* the JSON body chat() is handling
    query,              \* generate_guide_from_rag's argument
    mode,               \* generate_guide_from_rag's mode argument
    relevant_docs,      \* number of chunks the retriever returned
    context_labels,     \* the chunk IDs written into the prompt, in the order of the chunks
    llm_calls,          \* backends contacted over the network in this run
    llm_requests,       \* the sampling temperature (hundredths) and response format of each call
    calls,              \* concurrent requests: the locals of each call of generate_guide_from_rag
    raw,                \* what the language model answered in this run
    step_data,          \* parsed model output, mutated by image matching
    step_idx,           \* next step image matching will handle
    search_args,        \* [query_text, top_k] of the last image search
    matches,            \* (index, score) pairs the last image search kept
    scores,             \* score vector of the last image search
    top_indices,        \* argsort(scores)[::-1][:top_k] of the last search
    result,             \* what generate_guide_from_rag returned
    raised,             \* exception that escaped generate_guide_from_rag
    response            \* what chat() sent back: [code, body]

vars == <<variant, image_db_file, IMAGE_KB, IMAGE_EMBEDDINGS, DEFAULT_MODE,
          GROQ_API_KEY, pc, request, query, mode, relevant_docs, context_labels, llm_calls, llm_requests,
          calls,
          raw, step_data, step_idx, search_args, matches, scores, top_indices,
          result, raised, response>>

(***************************************************************************)
(* Bounds of the model.                                                    *)
(***************************************************************************)
MaxDocs == 2        \* chunks the retriever may return
MaxSteps == 2       \* steps in one model answer
MaxImages == 2      \* records in the image corpus file of a pipeline run
MaxSearchImages == 4    \* records in the corpus of a stand-alone image search
NumCalls == 2       \* concurrent calls of generate_guide_from_rag

(***************************************************************************)
(* Program constants.                                                      *)
(***************************************************************************)
TOP_K == 3          \* [:3] / top_k=3
THRESHOLD == 35     \* score > 0.35

(***************************************************************************)
(* JSON / Python values.                                                   *)
(***************************************************************************)
Missing == [t |-> "missing"]               \* no value (key absent, unset)
JNull == [t |-> "null"]                    \* None
JStr(s) == [t |-> "str", s |-> s]
JNum(n) == [t |-> "num", n |-> n]
JList(xs) == [t |-> "list", items |-> xs]
JObj(d) == [t |-> "obj", d |-> d]
EmptyDict == [k \in {} |-> JNull]

\* Python truthiness: `not v` is ~Truthy(v).
Truthy(v) ==
    CASE v.t = "null" -> FALSE
      [] v.t = "missing" -> FALSE
      [] v.t = "str" -> v.s /= ""
      [] v.t = "num" -> v.n /= 0
      [] v.t = "list" -> v.items /= <<>>
      [] v.t = "obj" -> DOMAIN v.d /= {}
      [] OTHER -> TRUE

\* dict.get(k, default)
Get(d, k, default) == IF k \in DOMAIN d THEN d[k] ELSE default

\* d[k] = v
Put(d, k, v) == [j \in DOMAIN d \cup {k} |-> IF j = k THEN v ELSE d[j]]

(***************************************************************************)
(* The image corpus file and its loading at import time.                   *)
(***************************************************************************)
Captions == {"ca", "cb"}
PathName == <<"p1", "p2", "p3", "p4", "p5", "p6", "p7", "p8">>

GoodRecord(i, cap) ==
    JObj([file_path |-> JStr(PathName[i]), dense_caption |-> JStr(cap),
          detected_objects |-> JList(<<>>)])
\* a record whose detected_objects is null: ', '.join(None) raises
NullObjectsRecord(i, cap) ==
    JObj([file_path |-> JStr(PathName[i]), dense_caption |-> JStr(cap),
          detected_objects |-> JNull])
\* a record without file_path
NoPathRecord(cap) ==
    JObj([dense_caption |-> JStr(cap), detected_objects |-> JList(<<>>)])

FileAbsent == [t |-> "absent"]
FileInvalid == [t |-> "invalid"]           \* exists, is not JSON
FileJson(v) == [t |-> "json", v |-> v]

GoodCorpora ==
    UNION { { JList([i \in 1..n |-> GoodRecord(i, caps[i])]) :
                caps \in [1..n -> Captions] } : n \in 0..MaxImages }
SpecialCorpora ==
    { JList(<<GoodRecord(1, "ca"), NullObjectsRecord(2, "cb")>>),
      JList(<<GoodRecord(1, "ca"), NoPathRecord("cb")>>) }
ImageDbFiles ==
    {FileAbsent, FileInvalid} \cup
    { FileJson(v) : v \in GoodCorpora \cup SpecialCorpora }

\* the caption text a record is embedded from; the embedding of a text is
\* modelled by the text itself (the embedding model is deterministic)
combo_caption(img) == Get(img.d, "dense_caption", JStr("")).s

\* f"... {', '.join(img.get('detected_objects', []))}" raises on null
CaptionRaises(img) == Get(img.d, "detected_objects", JList(<<>>)).t /= "list"

\* src/backend/main.py: the whole load sits in one try/except; IMAGE_KB is
\* assigned before the captions are built
backend_IMAGE_KB(file) ==
    IF file.t = "json" THEN file.v.items ELSE <<>>
backend_IMAGE_EMBEDDINGS(file) ==
    IF file.t = "json" /\ \A i \in DOMAIN file.v.items : ~CaptionRaises(file.v.items[i])
    THEN [i \in DOMAIN file.v.items |-> combo_caption(file.v.items[i])]
    ELSE <<>>

\* src/main.py: no try/except, json.load of a broken file ends the program;
\* detected_objects is not read
root_StartupRaises(file) == file.t = "invalid"
root_IMAGE_KB(file) ==
    IF file.t = "json" THEN file.v.items ELSE <<>>
root_IMAGE_EMBEDDINGS(file) ==
    IF file.t = "json"
    THEN [i \in DOMAIN file.v.items |-> combo_caption(file.v.items[i])]
    ELSE <<>>

(***************************************************************************)
(* cosine_similarity between the embedding of a search text and the        *)
(* embedding of a caption, in hundredths.  The search text is the pair     *)
(* <<task_title, description>> of f"{task_title} {description}".  The      *)
(* table stands for the sentence-transformer: it has scores above, at and  *)
(* below the threshold, and ties.                                          *)
(***************************************************************************)
BaseScore(desc, cap) ==
    CASE desc = "i1" /\ cap = "ca" -> 80
      [] desc = "i1" /\ cap = "cb" -> 35
      [] desc = "i2" /\ cap = "ca" -> 36
      [] desc = "i2" /\ cap = "cb" -> 60
      [] desc = "v1" -> 90
      [] OTHER -> 10
cosine_similarity(query_text, emb) ==
    BaseScore(query_text[2], emb) - (IF query_text[1] = "T" THEN 0 ELSE 1)

(***************************************************************************)
(* What the language model may answer.                                     *)
(***************************************************************************)
\* the key the prompt asks citations under
CiteKey(v) == IF v = "root" THEN "chunk_ids" ELSE "chunks"

StepA(ck) ==    \* a well-formed step citing chunk 1
    JObj(Put([step |-> JNum(1), instruction |-> JStr("i1")],
             ck, JList(<<JNum(1)>>)))
StepB(ck) ==    \* cites a chunk that was not supplied, invents an image
    JObj(Put([step |-> JNum(2), instruction |-> JStr("i2"),
              visual_description |-> JStr("v1"), images |-> JStr("fake.png")],
             ck, JList(<<JNum(MaxDocs + 1)>>)))
StepC(ck) ==    \* no "step" key, cites chunk 0
    JObj(Put([instruction |-> JStr("i1")], ck, JList(<<JNum(0)>>)))
StepD ==        \* no "instruction" key
    JObj([step |-> JNum(1), visual_description |-> JStr("v1")])
StepE ==        \* a step that is not an object
    JStr("x")
StepChoices(v) == {StepA(CiteKey(v)), StepB(CiteKey(v)), StepC(CiteKey(v)), StepD, StepE}

StepSeqs(v) ==
    UNION { [1..n -> StepChoices(v)] : n \in 0..MaxSteps }

GuideHeads ==
    { [task_title |-> JStr("T")], EmptyDict }
SuccessHead == [status |-> JStr("success"), task_title |-> JStr("T")]

ModelAnswers(v) ==
    { JObj(Put(h, "steps", JList(ss))) : h \in GuideHeads, ss \in StepSeqs(v) }
    \cup { JObj(Put(SuccessHead, "steps", JList(ss))) :
             ss \in { q \in StepSeqs(v) : Len(q) <= 1 } }
    \cup { JObj(h) : h \in GuideHeads \cup {SuccessHead} }
    \cup { JObj([status |-> JStr("error"), message |-> JStr("out of scope")]),
           JObj([status |-> JStr("error")]),
           JObj([task_title |-> JStr("T"), steps |-> JNull]),
           JObj([note |-> JStr("n")]),
           JNull, JNum(7), JList(<<>>), JList(<<JNum(1)>>) }

\* the outcome of one request to a language-model backend
RawFail == [t |-> "fail"]                  \* the call raised (unreachable)
RawEmpty == [t |-> "empty"]                \* content == ""
RawGarbage == [t |-> "garbage"]            \* content is text, not JSON
RawJson(v) == [t |-> "json", v |-> v]      \* content is the JSON text of v
Responses(v) ==
    {RawFail, RawEmpty, RawGarbage} \cup { RawJson(a) : a \in ModelAnswers(v) }

\* json.loads(content): the value, or a raise
json_loads_raises(r) == r.t /= "json"
json_loads(r) == r.v

(***************************************************************************)
(* Image search.                                                           *)
(***************************************************************************)
Reverse(s) == [i \in 1..Len(s) |-> s[Len(s) + 1 - i]]
TakeFirst(s, k) == SubSeq(s, 1, IF Len(s) < k THEN Len(s) ELSE k)

\* scores = cosine_similarity([query_vec], IMAGE_EMBEDDINGS)[0]
ScoreVector(query_text) ==
    [i \in 1..Len(IMAGE_EMBEDDINGS) |->
        cosine_similarity(query_text, IMAGE_EMBEDDINGS[i])]

\* np.argsort(sc): an index order that sorts sc ascending.  The default kind
\* is not stable, so every order of equal scores is a possible outcome.
RECURSIVE AscendingOrders(_, _)
AscendingOrders(S, sc) ==
    IF S = {} THEN {<<>>}
    ELSE UNION { { <<i>> \o rest : rest \in AscendingOrders(S \ {i}, sc) } :
                 i \in { j \in S : \A k \in S : sc[j] <= sc[k] } }
argsort(sc) == AscendingOrders(DOMAIN sc, sc)

\* the top_k cut without the [::-1]
C9_TopIndices_mutant(order, top_k) == TakeFirst(order, top_k)

\* np.argsort(scores)[::-1][:top_k], for one outcome `order` of argsort
TopIndices(order, top_k) == TakeFirst(Reverse(order), top_k)

\* a threshold test that lets the threshold itself pass
C8_PassesThreshold_mutant(score) == score >= THRESHOLD

\* the indices of `top`, in order, whose score passes the threshold
PassesThreshold(score) == score > THRESHOLD
Accepted(sc, top) == SelectSeq(top, LAMBDA idx : PassesThreshold(sc[idx]))

HasFilePath(idx) == "file_path" \in DOMAIN IMAGE_KB[idx].d
FilePath(idx) == IMAGE_KB[idx].d["file_path"]

\* src/main.py find_best_images, for one outcome `order` of argsort:
\* [{"path": ..., "score": ...}] in the order of top_indices
find_best_images_raises(query_text, order, top_k) ==
    /\ IMAGE_KB /= <<>> /\ IMAGE_EMBEDDINGS /= <<>>
    /\ LET acc == Accepted(ScoreVector(query_text), TopIndices(order, top_k))
       IN  \E i \in 1..Len(acc) : ~HasFilePath(acc[i])
find_best_images(query_text, order, top_k) ==
    IF IMAGE_KB = <<>> \/ IMAGE_EMBEDDINGS = <<>> THEN <<>>
    ELSE LET sc == ScoreVector(query_text)
             acc == Accepted(sc, TopIndices(order, top_k))
         IN  [i \in 1..Len(acc) |-> [idx |-> acc[i], score |-> sc[acc[i]]]]

(***************************************************************************)
(* Startup: the state after the module-level code of the program ran.      *)
(***************************************************************************)
Variants == {"backend", "root", "local_llm"}

\* main_local_llm.py reads the corpus file only to quote it in the prompt
LocalLlmFiles ==
    {FileAbsent, FileInvalid, FileJson(JList(<<GoodRecord(1, "ca")>>))}

Init ==
    /\ variant \in Variants
    /\ image_db_file \in (IF variant = "local_llm" THEN LocalLlmFiles ELSE ImageDbFiles)
    /\ IMAGE_KB = (CASE variant = "backend" -> backend_IMAGE_KB(image_db_file)
                     [] variant = "root" -> root_IMAGE_KB(image_db_file)
                     [] OTHER -> <<>>)
    /\ IMAGE_EMBEDDINGS =
          (CASE variant = "backend" -> backend_IMAGE_EMBEDDINGS(image_db_file)
             [] variant = "root" /\ ~root_StartupRaises(image_db_file) ->
                    root_IMAGE_EMBEDDINGS(image_db_file)
             [] OTHER -> <<>>)
    /\ DEFAULT_MODE \in (IF variant = "backend" THEN {"CLOUD", "LOCAL"} ELSE {""})
    /\ GROQ_API_KEY \in (IF variant = "backend" THEN BOOLEAN ELSE {FALSE})
    /\ pc = (CASE variant = "backend" -> "idle"
               [] variant = "root" /\ root_StartupRaises(image_db_file) -> "crashed"
               [] OTHER -> "main")
    /\ request = Missing
    /\ query = ""
    /\ mode = ""
    /\ relevant_docs = 0
    /\ context_labels = <<>>
    /\ llm_calls = <<>>
    /\ llm_requests = <<>>
    /\ calls = <<>>
    /\ raw = Missing
    /\ step_data = Missing
    /\ step_idx = 0
    /\ search_args = Missing
    /\ matches = <<>>
    /\ scores = <<>>
    /\ top_indices = <<>>
    /\ result = Missing
    /\ raised = "none"
    /\ response = Missing

startup == <<variant, image_db_file, IMAGE_KB, IMAGE_EMBEDDINGS, DEFAULT_MODE, GROQ_API_KEY>>
search == <<search_args, matches, scores, top_indices>>
SearchArgs(qt, k) == [query_text |-> qt, top_k |-> k]

(***************************************************************************)
(* src/backend/server.py                                                   *)
(***************************************************************************)
Upper(s) == IF s = "local" THEN "LOCAL" ELSE s      \* str.upper()

Bodies ==
    { JNull, JObj(EmptyDict), JList(<<JNum(1)>>),
      JObj([query |-> JStr("q")]),
      JObj([query |-> JStr("q"), mode |-> JStr("CLOUD")]),
      JObj([query |-> JStr("q"), mode |-> JStr("LOCAL")]),
      JObj([query |-> JStr("q"), mode |-> JStr("local")]),
      JObj([query |-> JStr("q"), mode |-> JStr("GPU")]),
      JObj([query |-> JStr("q"), mode |-> JNull]),
      JObj([query |-> JStr(""), mode |-> JStr("LOCAL")]),
      JObj([mode |-> JStr("CLOUD")]),
      JObj([mode |-> JStr("GPU")]) }

Reply(code, body) == [code |-> code, body |-> body]
\* an exception outside chat()'s try block: Flask answers with its own
\* error page, which is not JSON
Unhandled == Reply(500, [t |-> "html"])
ErrorOnly(text) == JObj([error |-> JStr(text)])
StatusError(text) == JObj([status |-> JStr("error"), message |-> JStr(text)])

\* a POST /api/chat arrives; the previous request's locals are gone
receive ==
    /\ variant = "backend"
    /\ pc \in {"idle", "responded", "aborted"}
    /\ \E body \in Bodies : request' = body
    /\ pc' = "chat"
    /\ query' = "" /\ mode' = "" /\ relevant_docs' = 0 /\ context_labels' = <<>> /\ llm_calls' = <<>> /\ llm_requests' = <<>>
    /\ raw' = Missing /\ step_data' = Missing /\ step_idx' = 0
    /\ search_args' = Missing
    /\ matches' = <<>> /\ scores' = <<>> /\ top_indices' = <<>>
    /\ result' = Missing /\ raised' = "none" /\ response' = Missing
    /\ UNCHANGED startup /\ UNCHANGED calls

\* chat(), lines 25-39: what it answers without calling the pipeline,
\* or Missing when it goes on to call generate_guide_from_rag
chat_rejects(data) ==
    IF ~Truthy(data) THEN Reply(400, ErrorOnly("Invalid JSON"))
    ELSE IF data.t /= "obj" THEN Unhandled                      \* data.get
    ELSE IF Get(data.d, "mode", JStr(DEFAULT_MODE)).t /= "str"
         THEN Unhandled                                         \* .upper()
    ELSE IF ~Truthy(Get(data.d, "query", JNull))
         THEN Reply(400, ErrorOnly("No query provided"))
    ELSE IF Upper(Get(data.d, "mode", JStr(DEFAULT_MODE)).s) \notin {"CLOUD", "LOCAL"}
         THEN Reply(400, ErrorOnly("Invalid Mode. Use 'CLOUD' or 'LOCAL'"))
    ELSE Missing

chat ==
    /\ pc = "chat"
    /\ IF chat_rejects(request) /= Missing
       THEN /\ response' = chat_rejects(request)
            /\ pc' = "responded"
            /\ UNCHANGED <<query, mode>>
       ELSE /\ query' = request.d["query"].s
            /\ mode' = Upper(Get(request.d, "mode", JStr(DEFAULT_MODE)).s)
            /\ pc' = "retrieving"
            /\ UNCHANGED response
    /\ request' = Missing
    /\ UNCHANGED <<relevant_docs, context_labels, llm_calls, llm_requests, raw, step_data, step_idx, result, raised>>
    /\ UNCHANGED startup /\ UNCHANGED calls /\ UNCHANGED search

\* the member names of the JSON objects a reply can hold, in sorted order
\* (jsonify writes an object's members sorted by name)
KeyOrder ==
    <<"chunk_ids", "chunks", "error", "images", "instruction", "message", "note",
      "raw_response", "status", "step", "steps", "task_title", "visual_description">>

\* a serializer that leaves out the members whose value is None
RECURSIVE C25_jsonify_mutant(_)
C25_jsonify_mutant(v) ==
    CASE v.t = "null" -> [k |-> "null"]
      [] v.t = "str" -> [k |-> "string", chars |-> v.s]
      [] v.t = "num" -> [k |-> "number", digits |-> v.n]
      [] v.t = "list" ->
            [k |-> "array", elems |-> [i \in 1..Len(v.items) |-> C25_jsonify_mutant(v.items[i])]]
      [] v.t = "obj" ->
            LET ks == SelectSeq(KeyOrder, LAMBDA key : key \in DOMAIN v.d /\ v.d[key] /= JNull)
            IN  [k |-> "object",
                 members |-> [i \in 1..Len(ks) |->
                                [name |-> ks[i], value |-> C25_jsonify_mutant(v.d[ks[i]])]]]

\* chat(), line 44: jsonify(result), the JSON text of a Python value, as the
\* tree of its tokens
RECURSIVE jsonify(_)
jsonify(v) ==
    CASE v.t = "null" -> [k |-> "null"]
      [] v.t = "str" -> [k |-> "string", chars |-> v.s]
      [] v.t = "num" -> [k |-> "number", digits |-> v.n]
      [] v.t = "list" ->
            [k |-> "array", elems |-> [i \in 1..Len(v.items) |-> jsonify(v.items[i])]]
      [] v.t = "obj" ->
            LET ks == SelectSeq(KeyOrder, LAMBDA key : key \in DOMAIN v.d)
            IN  [k |-> "object",
                 members |-> [i \in 1..Len(ks) |->
                                [name |-> ks[i], value |-> jsonify(v.d[ks[i]])]]]

\* the value a client gets by parsing a JSON text; of members with one name
\* the last wins
RECURSIVE json_parse(_)
json_parse(x) ==
    CASE x.k = "null" -> JNull
      [] x.k = "string" -> JStr(x.chars)
      [] x.k = "number" -> JNum(x.digits)
      [] x.k = "array" -> JList([i \in 1..Len(x.elems) |-> json_parse(x.elems[i])])
      [] x.k = "object" ->
            JObj([n \in { x.members[i].name : i \in 1..Len(x.members) } |->
                    json_parse(x.members[CHOOSE i \in 1..Len(x.members) :
                                   /\ x.members[i].name = n
                                   /\ \A j \in 1..Len(x.members) :
                                         x.members[j].name = n => j <= i].value)])

\* chat(), lines 43-47, once generate_guide_from_rag returned or raised; the
\* body of a 200 reply is what the client reads from the JSON text
chat_reply(res, exc) ==
    IF exc = "none" THEN Reply(200, json_parse(jsonify(res)))
    ELSE Reply(500, StatusError(exc))

respond ==
    /\ variant = "backend"
    /\ pc = "returned"
    /\ response' = chat_reply(result, raised)
    /\ pc' = "responded"
    \* the locals of the call are gone
    /\ query' = "" /\ mode' = "" /\ relevant_docs' = 0 /\ context_labels' = <<>> /\ llm_calls' = <<>> /\ llm_requests' = <<>>
    /\ raw' = Missing /\ step_data' = Missing /\ step_idx' = 0
    /\ search_args' = Missing
    /\ matches' = <<>> /\ scores' = <<>> /\ top_indices' = <<>>
    /\ result' = Missing /\ raised' = "none"
    /\ UNCHANGED request
    /\ UNCHANGED startup /\ UNCHANGED calls

(***************************************************************************)
(* src/backend/main.py                                                     *)
(***************************************************************************)
\* labels that count the chunks from 0
C26_backend_chunk_id_mutant(i) == i

\* the ID in the label of the chunk at enumerate index i:
\* f"[Chunk {i + 1}] ..." in src/backend/main.py (line 203) and
\* main_local_llm.py (line 92), f"[Chunk {i}] ..." in src/main.py (line 81)
backend_chunk_id(i) == i + 1
root_chunk_id(i) == i
local_chunk_id(i) == i + 1
\* the IDs of the n retrieved chunks as the prompt lists them
context_labels_of(v, n) ==
    [j \in 1..n |-> CASE v = "backend" -> backend_chunk_id(j - 1)
                      [] v = "root" -> root_chunk_id(j - 1)
                      [] OTHER -> local_chunk_id(j - 1)]
\* the citation in the prompt's example of the output format:
\* "chunks": [1] (src/backend/main.py line 133), "chunk_ids": [0]
\* (src/main.py line 121)
backend_example_chunks == <<1>>
root_example_chunk_ids == <<0>>

\* the f"[Chunk {i + 1}] ..." labels of the retrieved chunks
backend_ChunkIds(n) == { i + 1 : i \in 0..(n - 1) }

\* generate_guide_from_rag, lines 195-206
backend_NoDocsResult == StatusError("No info found.")
\* a retrieval check that lets an empty result through
C2_not_relevant_docs_mutant(n) == FALSE
\* line 199: if not relevant_docs
not_relevant_docs(n) == n = 0
\* get_retriever, line 81: sys.exit(1) raises SystemExit inside the request.
\* chat()'s `except Exception` does not catch it, so it reaches the server
\* started by app.run (server.py line 58): it ends the process when it
\* unwinds the main thread ("exited") and only the request's own thread, with
\* no reply sent, when requests are handled in threads ("aborted")
SystemExitOutcomes == {"exited", "aborted"}

retrieve ==
    /\ variant = "backend"
    /\ pc = "retrieving"
    /\ \E db_exists \in BOOLEAN, n \in 0..MaxDocs :
          IF ~db_exists
          THEN \* get_retriever: sys.exit(1)
               /\ n = 0
               /\ pc' \in SystemExitOutcomes
               /\ UNCHANGED <<relevant_docs, context_labels, result>>
          ELSE /\ relevant_docs' = n
               /\ context_labels' = context_labels_of(variant, n)
               /\ IF not_relevant_docs(n)
                  THEN result' = backend_NoDocsResult /\ pc' = "returned"
                  ELSE pc' = "generating" /\ UNCHANGED result
    /\ UNCHANGED <<request, query, mode, llm_calls, llm_requests, raw, step_data, step_idx,
                   raised, response>>
    /\ UNCHANGED startup /\ UNCHANGED calls /\ UNCHANGED search

\* call_llm: the temperature (in hundredths) and the response format of the
\* request it sends; ChatOllama gets 0.1 (line 96), Groq 0.0 (line 111)
call_llm_request(m, json_mode) ==
    IF m = "LOCAL"
    THEN [temperature |-> 10, format |-> IF json_mode THEN "json" ELSE "none"]
    ELSE [temperature |-> 0, format |-> IF json_mode THEN "json_object" ELSE "none"]

\* src/main.py lines 91-96 and main_local_llm.py lines 116-121: ChatOllama
\* with temperature 0.0 and format "json"
script_request == [temperature |-> 0, format |-> "json"]

\* a caller that keeps retrying: two retries after the first attempt
C18_call_llm_backend_mutant(m) ==
    IF m = "LOCAL" THEN <<"ollama", "ollama", "ollama">>
    ELSE IF GROQ_API_KEY THEN <<"groq", "groq", "groq">> ELSE <<>>

\* a caller that contacts the backend a second time
C17_call_llm_backend_mutant(m) ==
    IF m = "LOCAL" THEN <<"ollama", "ollama">>
    ELSE IF GROQ_API_KEY THEN <<"groq", "groq">> ELSE <<>>

\* a caller that falls back to the self-hosted backend when the key is missing
C30_call_llm_backend_mutant(m) ==
    IF m = "LOCAL" THEN <<"ollama">>
    ELSE IF GROQ_API_KEY THEN <<"groq">> ELSE <<"ollama">>

\* call_llm: the backend it contacts, if any
call_llm_backend(m) ==
    IF m = "LOCAL" THEN <<"ollama">>
    ELSE IF GROQ_API_KEY THEN <<"groq">> ELSE <<>>

\* a parser that hands the raw text on when json.loads rejects it
C3_phase_1_generate_steps_mutant(r) ==
    IF r = Missing \/ r = RawFail THEN JNull
    ELSE IF r = RawEmpty THEN JNull
    ELSE IF json_loads_raises(r) THEN JStr("garbage")
    ELSE json_loads(r)

\* phase_1_generate_steps on the backend's answer r (Missing: no request was
\* sent): None for a failed call, an empty answer or text json.loads rejects
phase_1_generate_steps(r) ==
    IF r = Missing \/ r = RawFail THEN JNull            \* call_llm returned None
    ELSE IF r = RawEmpty THEN JNull                     \* if not raw
    ELSE IF json_loads_raises(r) THEN JNull             \* bare except
    ELSE json_loads(r)

backend_GenerationFailed == StatusError("Step generation failed.")

\* a guard that lets every answer of phase 1 through to phase 2
C19_not_step_data_mutant(v) == FALSE

\* generate_guide_from_rag, line 210: if not step_data
not_step_data(v) == ~Truthy(v)

\* generate_guide_from_rag, lines 208-211
generate ==
    /\ variant = "backend"
    /\ pc = "generating"
    /\ \E r \in Responses(variant) :
          /\ llm_calls' = llm_calls \o call_llm_backend(mode)
          /\ llm_requests' = llm_requests \o [i \in 1..Len(call_llm_backend(mode)) |->
                                                 call_llm_request(mode, TRUE)]
          /\ raw' = (IF call_llm_backend(mode) = <<>> THEN Missing ELSE r)
          /\ call_llm_backend(mode) = <<>> => r = RawFail
          /\ step_data' = phase_1_generate_steps(raw')
          /\ IF not_step_data(step_data')
             THEN result' = backend_GenerationFailed /\ pc' = "returned" /\ step_idx' = 0
             ELSE pc' = "matching" /\ step_idx' = 1 /\ UNCHANGED result
    /\ UNCHANGED <<request, query, mode, relevant_docs, context_labels, raised, response>>
    /\ UNCHANGED startup /\ UNCHANGED calls /\ UNCHANGED search

\* phase_2_semantic_match, line 152
phase_2_skips == IMAGE_KB = <<>> \/ IMAGE_EMBEDDINGS = <<>>

\* lines 156-159: the exception the step loop cannot start with, or "none"
phase_2_entry_raises(sj) ==
    IF sj.t /= "obj" THEN "AttributeError"                       \* steps_json.get
    ELSE IF Get(sj.d, "steps", JList(<<>>)).t /= "list" THEN "TypeError"
    ELSE "none"

\* a search text that prefers the step's visual_description
C12_backend_query_text_mutant(sj, step) ==
    <<Get(sj.d, "task_title", JStr("")).s,
      Get(step.d, "visual_description", Get(step.d, "instruction", JStr(""))).s>>

\* line 163: f"{task_title} {instruction}"
backend_query_text(sj, step) ==
    <<Get(sj.d, "task_title", JStr("")).s, Get(step.d, "instruction", JStr("")).s>>

\* lines 175-183 for one step: the loop raises when an accepted match has no
\* file_path, or when the step has no 'step' key to print
phase_2_step_raises(step, acc) ==
    /\ acc /= <<>>
    /\ \/ \E i \in 1..Len(acc) : ~HasFilePath(acc[i])
       \/ "step" \notin DOMAIN step.d

\* line 186: matched_paths if matched_paths else None
backend_images(acc) ==
    IF acc = <<>> THEN JNull ELSE JList([i \in 1..Len(acc) |-> FilePath(acc[i])])

\* a store that keeps only the step just matched
C28_SetStep_mutant(sj, i, step) ==
    JObj(Put(sj.d, "steps", JList(<<step>>)))

\* line 186 (src/main.py line 139): step["images"] = ... on a member of steps
SetStep(sj, i, step) ==
    JObj(Put(sj.d, "steps", JList([sj.d["steps"].items EXCEPT ![i] = step])))

\* one turn of phase_2_semantic_match: the entry checks, then the step
\* step_idx; after the last step it returns to generate_guide_from_rag
phase_2_semantic_match ==
    /\ variant = "backend"
    /\ pc = "matching"
    /\ IF phase_2_skips
       THEN pc' = "finishing" /\ UNCHANGED <<step_data, step_idx, raised>> /\ UNCHANGED search
       ELSE IF phase_2_entry_raises(step_data) /= "none"
       THEN /\ raised' = phase_2_entry_raises(step_data)
            /\ pc' = "returned"
            /\ UNCHANGED <<step_data, step_idx>> /\ UNCHANGED search
       ELSE LET steps == Get(step_data.d, "steps", JList(<<>>)).items IN
            IF step_idx > Len(steps)
            THEN pc' = "finishing" /\ UNCHANGED <<step_data, step_idx, raised>> /\ UNCHANGED search
            ELSE LET step == steps[step_idx] IN
                 IF step.t /= "obj"
                 THEN /\ raised' = "AttributeError"              \* step.get
                      /\ pc' = "returned"
                      /\ UNCHANGED <<step_data, step_idx>> /\ UNCHANGED search
                 ELSE \E order \in argsort(ScoreVector(backend_query_text(step_data, step))) :
                      LET sc == ScoreVector(backend_query_text(step_data, step))
                          top == TopIndices(order, TOP_K)
                          acc == Accepted(sc, top)
                      IN  /\ search_args' = SearchArgs(backend_query_text(step_data, step), TOP_K)
                          /\ scores' = sc
                          /\ top_indices' = top
                          /\ IF phase_2_step_raises(step, acc)
                             THEN /\ raised' = "KeyError"
                                  /\ pc' = "returned"
                                  /\ UNCHANGED <<step_data, step_idx, matches>>
                             ELSE /\ matches' = [i \in 1..Len(acc) |->
                                                   [idx |-> acc[i], score |-> sc[acc[i]]]]
                                  /\ step_data' = SetStep(step_data, step_idx,
                                        JObj(Put(step.d, "images", backend_images(acc))))
                                  /\ step_idx' = step_idx + 1
                                  /\ pc' = IF step_idx = Len(steps) THEN "finishing" ELSE "matching"
                                  /\ UNCHANGED raised
    /\ UNCHANGED <<request, query, mode, relevant_docs, context_labels, llm_calls, llm_requests, raw, result, response>>
    /\ UNCHANGED startup /\ UNCHANGED calls

\* generate_guide_from_rag, lines 216-219
finish ==
    /\ variant = "backend"
    /\ pc = "finishing"
    /\ IF step_data.t = "obj"
       THEN /\ result' = JObj(Put(step_data.d, "status", JStr("success")))
            /\ step_data' = result'
            /\ UNCHANGED raised
       ELSE /\ raised' = "TypeError"                   \* final_data["status"] = ...
            /\ UNCHANGED <<result, step_data>>
    /\ pc' = "returned"
    /\ UNCHANGED <<request, query, mode, relevant_docs, context_labels, llm_calls, llm_requests, raw, step_idx, response>>
    /\ UNCHANGED startup /\ UNCHANGED calls /\ UNCHANGED search

(***************************************************************************)
(* The scripts: the __main__ block calls generate_guide_from_rag once.     *)
(***************************************************************************)
main_block ==
    /\ variant \in {"root", "local_llm"}
    /\ pc = "main"
    /\ query' = "q1"
    /\ pc' = "retrieving"
    /\ UNCHANGED <<request, mode, relevant_docs, context_labels, llm_calls, llm_requests, raw, step_data, step_idx,
                   result, raised, response>>
    /\ UNCHANGED startup /\ UNCHANGED calls /\ UNCHANGED search

(***************************************************************************)
(* src/main.py.  generate_guide_from_rag returns a pair; `result` is its   *)
(* first component.                                                        *)
(***************************************************************************)
\* the f"[Chunk {i}] ..." labels of the retrieved chunks
root_ChunkIds(n) == { i : i \in 0..(n - 1) }

root_NoDocsResult == ErrorOnly("No relevant info found.")
root_InferenceError == ErrorOnly("Remote Inference Error")

\* lines 67-71
root_retrieve ==
    /\ variant = "root"
    /\ pc = "retrieving"
    /\ \E db_exists \in BOOLEAN, n \in 0..MaxDocs :
          IF ~db_exists
          THEN /\ n = 0
               /\ pc' = "exited"
               /\ UNCHANGED <<relevant_docs, context_labels, result>>
          ELSE /\ relevant_docs' = n
               /\ context_labels' = context_labels_of(variant, n)
               /\ IF n = 0
                  THEN result' = root_NoDocsResult /\ pc' = "returned"
                  ELSE pc' = "generating" /\ UNCHANGED result
    /\ UNCHANGED <<request, query, mode, llm_calls, llm_requests, raw, step_data, step_idx,
                   raised, response>>
    /\ UNCHANGED startup /\ UNCHANGED calls /\ UNCHANGED search

\* lines 130-134: does the try block raise before the step loop?
root_parse_raises(r) ==
    \/ r = RawFail                                  \* llm.invoke
    \/ json_loads_raises(r)                         \* json.loads, "" included
    \/ json_loads(r).t \in {"null", "num"}          \* "steps" in result_json

\* line 134: "steps" in result_json
root_has_steps(v) == v.t = "obj" /\ "steps" \in DOMAIN v.d

\* lines 129-134 and 141-144
root_invoke ==
    /\ variant = "root"
    /\ pc = "generating"
    /\ \E r \in Responses(variant) :
          /\ llm_calls' = Append(llm_calls, "ollama")
          /\ llm_requests' = Append(llm_requests, script_request)
          /\ raw' = r
          /\ IF root_parse_raises(r)
             THEN /\ result' = root_InferenceError
                  /\ pc' = "returned"
                  /\ UNCHANGED <<step_data, step_idx>>
             ELSE /\ step_data' = json_loads(r)
                  /\ IF root_has_steps(json_loads(r))
                     THEN pc' = "matching" /\ step_idx' = 1 /\ UNCHANGED result
                     ELSE pc' = "returned" /\ result' = json_loads(r) /\ UNCHANGED step_idx
    /\ UNCHANGED <<request, query, mode, relevant_docs, context_labels, raised, response>>
    /\ UNCHANGED startup /\ UNCHANGED calls /\ UNCHANGED search

\* line 137: step.get('visual_description', step['instruction']); the default
\* is evaluated first, so a step without 'instruction' raises
root_step_raises(step) == step.t /= "obj" \/ "instruction" \notin DOMAIN step.d
root_query_text(sj, step) ==
    <<Get(sj.d, "task_title", JStr("General")).s,
      Get(step.d, "visual_description", step.d["instruction"]).s>>

\* line 139: [match['path'] for match in matched_images]
root_images(found) == JList([i \in 1..Len(found) |-> FilePath(found[i].idx)])

\* one turn of the loop of lines 136-139; after the last step line 141 returns
root_match ==
    /\ variant = "root"
    /\ pc = "matching"
    /\ LET steps == step_data.d["steps"] IN
       IF steps.t /= "list"
       THEN /\ result' = root_InferenceError
            /\ pc' = "returned"
            /\ UNCHANGED <<step_data, step_idx>> /\ UNCHANGED search
       ELSE IF step_idx > Len(steps.items)
       THEN /\ result' = step_data
            /\ pc' = "returned"
            /\ UNCHANGED <<step_data, step_idx>> /\ UNCHANGED search
       ELSE LET step == steps.items[step_idx] IN
            IF root_step_raises(step)
            THEN /\ result' = root_InferenceError
                 /\ pc' = "returned"
                 /\ UNCHANGED <<step_data, step_idx>> /\ UNCHANGED search
            ELSE \E order \in argsort(ScoreVector(root_query_text(step_data, step))) :
                 LET qt == root_query_text(step_data, step) IN
                 /\ search_args' = SearchArgs(qt, TOP_K)
                 /\ scores' = (IF IMAGE_KB = <<>> \/ IMAGE_EMBEDDINGS = <<>>
                               THEN scores ELSE ScoreVector(qt))
                 /\ top_indices' = (IF IMAGE_KB = <<>> \/ IMAGE_EMBEDDINGS = <<>>
                                    THEN top_indices ELSE TopIndices(order, TOP_K))
                 /\ IF find_best_images_raises(qt, order, TOP_K)
                    THEN /\ result' = root_InferenceError
                         /\ pc' = "returned"
                         /\ UNCHANGED <<step_data, step_idx, matches>>
                    ELSE /\ matches' = find_best_images(qt, order, TOP_K)
                         /\ step_data' = SetStep(step_data, step_idx,
                               JObj(Put(step.d, "images", root_images(matches'))))
                         /\ step_idx' = step_idx + 1
                         /\ IF step_idx = Len(steps.items)
                            THEN result' = step_data' /\ pc' = "returned"
                            ELSE pc' = "matching" /\ UNCHANGED result
    /\ UNCHANGED <<request, query, mode, relevant_docs, context_labels, llm_calls, llm_requests, raw, raised, response>>
    /\ UNCHANGED startup /\ UNCHANGED calls

(***************************************************************************)
(* src/backend/main_local_llm.py                                           *)
(***************************************************************************)
local_NoDocsResult == ErrorOnly("No relevant info found in manuals.")

\* the except handler of lines 185-190: getattr(response, "content", ...)
\* reads a name no assignment bound when llm.invoke raised
local_handler_raises(r) == r = RawFail
local_ErrorResult(r) ==
    JObj([error |-> JStr("Local Inference Error"),
          raw_response |-> JStr(IF r = RawEmpty THEN "" ELSE "garbage")])

\* lines 82-104
local_retrieve ==
    /\ variant = "local_llm"
    /\ pc = "retrieving"
    /\ \E db_exists \in BOOLEAN, n \in 0..MaxDocs :
          IF ~db_exists
          THEN /\ n = 0
               /\ pc' = "exited"
               /\ UNCHANGED <<relevant_docs, context_labels, result>>
          ELSE /\ relevant_docs' = n
               /\ context_labels' = context_labels_of(variant, n)
               /\ IF n = 0
                  THEN result' = local_NoDocsResult /\ pc' = "returned"
                  ELSE pc' = "generating" /\ UNCHANGED result
    /\ UNCHANGED <<request, query, mode, llm_calls, llm_requests, raw, step_data, step_idx,
                   raised, response>>
    /\ UNCHANGED startup /\ UNCHANGED calls /\ UNCHANGED search

\* lines 172-190
local_invoke ==
    /\ variant = "local_llm"
    /\ pc = "generating"
    /\ \E r \in Responses(variant) :
          /\ llm_calls' = Append(llm_calls, "ollama")
          /\ llm_requests' = Append(llm_requests, script_request)
          /\ raw' = r
          /\ IF ~json_loads_raises(r) /\ r /= RawFail
             THEN result' = json_loads(r) /\ UNCHANGED raised
             ELSE IF local_handler_raises(r)
             THEN raised' = "UnboundLocalError" /\ UNCHANGED result
             ELSE result' = local_ErrorResult(r) /\ UNCHANGED raised
    /\ pc' = "returned"
    /\ UNCHANGED <<request, query, mode, relevant_docs, context_labels, step_data, step_idx, response>>
    /\ UNCHANGED startup /\ UNCHANGED calls /\ UNCHANGED search

Next ==
    \/ receive
    \/ chat
    \/ retrieve
    \/ generate
    \/ phase_2_semantic_match
    \/ finish
    \/ respond
    \/ main_block
    \/ root_retrieve
    \/ root_invoke
    \/ root_match
    \/ local_retrieve
    \/ local_invoke

Spec == Init /\ [][Next]_vars

(***************************************************************************)
(* The image search on its own: a loaded corpus of up to MaxSearchImages   *)
(* records, searched with any text and, in src/main.py, any top_k up to    *)
(* the pipeline's.                                                         *)
(***************************************************************************)
SearchCorpora ==
    UNION { { JList([i \in 1..n |-> GoodRecord(i, caps[i])]) :
                caps \in [1..n -> Captions] } : n \in 0..MaxSearchImages }
SearchTexts == {"T", ""} \X {"i1", "i2", "v1", ""}

InitSearch ==
    /\ variant \in {"backend", "root"}
    /\ image_db_file \in {FileAbsent} \cup { FileJson(v) : v \in SearchCorpora }
    /\ IMAGE_KB = (IF variant = "backend" THEN backend_IMAGE_KB(image_db_file)
                   ELSE root_IMAGE_KB(image_db_file))
    /\ IMAGE_EMBEDDINGS = (IF variant = "backend"
                           THEN backend_IMAGE_EMBEDDINGS(image_db_file)
                           ELSE root_IMAGE_EMBEDDINGS(image_db_file))
    /\ DEFAULT_MODE = ""
    /\ GROQ_API_KEY = FALSE
    /\ pc = "search"
    /\ request = Missing
    /\ query = ""
    /\ mode = ""
    /\ relevant_docs = 0
    /\ context_labels = <<>>
    /\ llm_calls = <<>>
    /\ llm_requests = <<>>
    /\ calls = <<>>
    /\ raw = Missing
    /\ step_data = Missing
    /\ step_idx = 0
    /\ search_args = Missing
    /\ matches = <<>>
    /\ scores = <<>>
    /\ top_indices = <<>>
    /\ result = Missing
    /\ raised = "none"
    /\ response = Missing

\* src/main.py: find_best_images(task_title, step_description, top_k)
search_find_best_images ==
    /\ variant = "root"
    /\ pc = "search"
    /\ \E qt \in SearchTexts, k \in 1..TOP_K :
       \E order \in argsort(ScoreVector(qt)) :
          /\ search_args' = SearchArgs(qt, k)
          /\ scores' = (IF IMAGE_KB = <<>> \/ IMAGE_EMBEDDINGS = <<>>
                        THEN <<>> ELSE ScoreVector(qt))
          /\ top_indices' = (IF IMAGE_KB = <<>> \/ IMAGE_EMBEDDINGS = <<>>
                             THEN <<>> ELSE TopIndices(order, k))
          /\ matches' = find_best_images(qt, order, k)
    /\ pc' = "searched"
    /\ UNCHANGED <<request, query, mode, relevant_docs, context_labels, llm_calls, llm_requests, raw, step_data,
                   step_idx, result, raised, response>>
    /\ UNCHANGED startup /\ UNCHANGED calls

\* src/backend/main.py: lines 163-180 of phase_2_semantic_match, the search
\* it runs for one step once line 152 let it through
search_phase_2 ==
    /\ variant = "backend"
    /\ pc = "search"
    /\ ~phase_2_skips
    /\ \E qt \in SearchTexts :
       \E order \in argsort(ScoreVector(qt)) :
          LET sc == ScoreVector(qt)
              acc == Accepted(sc, TopIndices(order, TOP_K))
          IN  /\ search_args' = SearchArgs(qt, TOP_K)
              /\ scores' = sc
              /\ top_indices' = TopIndices(order, TOP_K)
              /\ matches' = [i \in 1..Len(acc) |-> [idx |-> acc[i], score |-> sc[acc[i]]]]
    /\ pc' = "searched"
    /\ UNCHANGED <<request, query, mode, relevant_docs, context_labels, llm_calls, llm_requests, raw, step_data,
                   step_idx, result, raised, response>>
    /\ UNCHANGED startup /\ UNCHANGED calls

NextSearch ==
    \/ search_find_best_images
    \/ search_phase_2

SpecSearch == InitSearch /\ [][NextSearch]_vars

(***************************************************************************)
(* Concurrent requests to src/backend/main.py: NumCalls calls of           *)
(* generate_guide_from_rag run interleaved, as the request threads of the  *)
(* server do.  The names a call assigns (relevant_docs, step_data, ...)    *)
(* are locals of that call; IMAGE_KB and IMAGE_EMBEDDINGS are the module's *)
(* globals.  The text index exists.                                        *)
(***************************************************************************)
ConcCorpora ==
    { FileAbsent,
      FileJson(JList(<<GoodRecord(1, "ca")>>)),
      FileJson(JList(<<GoodRecord(1, "ca"), GoodRecord(2, "ca")>>)),
      FileJson(JList(<<GoodRecord(1, "ca"), NoPathRecord("cb")>>)) }
ConcAnswers ==
    { JObj([task_title |-> JStr("T"), steps |-> JList(<<StepA("chunks")>>)]),
      JObj([task_title |-> JStr("T"), steps |-> JList(<<StepA("chunks"), StepB("chunks")>>)]),
      JObj([task_title |-> JStr("T"), steps |-> JList(<<StepC("chunks")>>)]) }
ConcResponses == {RawFail} \cup { RawJson(a) : a \in ConcAnswers }

NewCall ==
    [pc |-> "retrieving", relevant_docs |-> 0, raw |-> Missing, step_data |-> Missing,
     step_idx |-> 0, result |-> Missing, raised |-> "none"]

InitConc ==
    /\ variant = "backend"
    /\ image_db_file \in ConcCorpora
    /\ IMAGE_KB = backend_IMAGE_KB(image_db_file)
    /\ IMAGE_EMBEDDINGS = backend_IMAGE_EMBEDDINGS(image_db_file)
    /\ DEFAULT_MODE = "LOCAL"
    /\ GROQ_API_KEY = FALSE
    /\ pc = "concurrent"
    /\ request = Missing
    /\ query = ""
    /\ mode = ""
    /\ relevant_docs = 0
    /\ context_labels = <<>>
    /\ llm_calls = <<>>
    /\ llm_requests = <<>>
    /\ calls = [c \in 1..NumCalls |-> NewCall]
    /\ raw = Missing
    /\ step_data = Missing
    /\ step_idx = 0
    /\ search_args = Missing
    /\ matches = <<>>
    /\ scores = <<>>
    /\ top_indices = <<>>
    /\ result = Missing
    /\ raised = "none"
    /\ response = Missing

\* what a step of one call leaves alone: the globals and the handler's state
single == <<pc, request, query, mode, relevant_docs, context_labels, llm_calls, llm_requests, raw,
            step_data, step_idx, result, raised, response>>

\* generate_guide_from_rag, lines 195-200
conc_retrieve(self) ==
    /\ pc = "concurrent"
    /\ calls[self].pc = "retrieving"
    /\ \E n \in 0..MaxDocs :
          calls' = [calls EXCEPT
                      ![self].relevant_docs = n,
                      ![self].result = IF not_relevant_docs(n) THEN backend_NoDocsResult ELSE @,
                      ![self].pc = IF not_relevant_docs(n) THEN "returned" ELSE "generating"]
    /\ UNCHANGED single /\ UNCHANGED startup /\ UNCHANGED search

\* generate_guide_from_rag, lines 208-211
conc_generate(self) ==
    /\ pc = "concurrent"
    /\ calls[self].pc = "generating"
    /\ \E r \in ConcResponses :
          calls' = [calls EXCEPT
                      ![self].raw = r,
                      ![self].step_data = phase_1_generate_steps(r),
                      ![self].result = IF not_step_data(phase_1_generate_steps(r))
                                       THEN backend_GenerationFailed ELSE @,
                      ![self].step_idx = IF not_step_data(phase_1_generate_steps(r))
                                         THEN 0 ELSE 1,
                      ![self].pc = IF not_step_data(phase_1_generate_steps(r))
                                   THEN "returned" ELSE "matching"]
    /\ UNCHANGED single /\ UNCHANGED startup /\ UNCHANGED search

\* a phase 2 that works on one Guide object shared by all calls
C24_steps_json_of_mutant(cs, self) == cs[1].step_data

\* line 214: phase_2_semantic_match(step_data) is handed the call's own
\* step_data, the object json.loads built for this call
steps_json_of(cs, self) == cs[self].step_data

\* one turn of phase_2_semantic_match in call `self`
conc_phase_2(self) ==
    /\ pc = "concurrent"
    /\ calls[self].pc = "matching"
    /\ LET sj == steps_json_of(calls, self) IN
       IF phase_2_skips
       THEN calls' = [calls EXCEPT ![self].step_data = sj, ![self].pc = "finishing"]
       ELSE IF phase_2_entry_raises(sj) /= "none"
       THEN calls' = [calls EXCEPT ![self].raised = phase_2_entry_raises(sj),
                                   ![self].pc = "returned"]
       ELSE LET steps == Get(sj.d, "steps", JList(<<>>)).items IN
            IF calls[self].step_idx > Len(steps)
            THEN calls' = [calls EXCEPT ![self].step_data = sj, ![self].pc = "finishing"]
            ELSE LET step == steps[calls[self].step_idx] IN
                 IF step.t /= "obj"
                 THEN calls' = [calls EXCEPT ![self].raised = "AttributeError",
                                             ![self].pc = "returned"]
                 ELSE \E order \in argsort(ScoreVector(backend_query_text(sj, step))) :
                      LET sc == ScoreVector(backend_query_text(sj, step))
                          acc == Accepted(sc, TopIndices(order, TOP_K))
                      IN  IF phase_2_step_raises(step, acc)
                          THEN calls' = [calls EXCEPT ![self].raised = "KeyError",
                                                      ![self].pc = "returned"]
                          ELSE calls' = [calls EXCEPT
                                  ![self].step_data = SetStep(sj, calls[self].step_idx,
                                        JObj(Put(step.d, "images", backend_images(acc)))),
                                  ![self].step_idx = @ + 1,
                                  ![self].pc = IF calls[self].step_idx = Len(steps)
                                               THEN "finishing" ELSE "matching"]
    /\ UNCHANGED single /\ UNCHANGED startup /\ UNCHANGED search

\* generate_guide_from_rag, lines 216-219
conc_finish(self) ==
    /\ pc = "concurrent"
    /\ calls[self].pc = "finishing"
    /\ IF calls[self].step_data.t = "obj"
       THEN calls' = [calls EXCEPT
                        ![self].result = JObj(Put(calls[self].step_data.d, "status",
                                                  JStr("success"))),
                        ![self].step_data = JObj(Put(calls[self].step_data.d, "status",
                                                     JStr("success"))),
                        ![self].pc = "returned"]
       ELSE calls' = [calls EXCEPT ![self].raised = "TypeError", ![self].pc = "returned"]
    /\ UNCHANGED single /\ UNCHANGED startup /\ UNCHANGED search

NextConc ==
    \/ \E self \in 1..NumCalls : conc_retrieve(self)
    \/ \E self \in 1..NumCalls : conc_generate(self)
    \/ \E self \in 1..NumCalls : conc_phase_2(self)
    \/ \E self \in 1..NumCalls : conc_finish(self)

SpecConc == InitConc /\ [][NextConc]_vars

(***************************************************************************)
(* Properties.                                                             *)
(***************************************************************************)
HasStatus(v, st) == v.t = "obj" /\ "status" \in DOMAIN v.d /\ v.d["status"] = JStr(st)
HasText(v, key) == v.t = "obj" /\ key \in DOMAIN v.d /\ v.d[key].t = "str" /\ v.d[key].s /= ""
StepsOf(v) ==
    IF v.t = "obj" /\ "steps" \in DOMAIN v.d /\ v.d["steps"].t = "list"
    THEN v.d["steps"].items ELSE <<>>
\* the call returned a value (it neither raised nor ended the process)
Returned == pc = "returned" /\ raised = "none"

\* C1: in every program and mode, a retrieval that found no chunk makes
\* generate_guide_from_rag return a Guide whose status is "error".
C1_EmptyRetrievalGivesStatusError ==
    (Returned /\ relevant_docs = 0) => HasStatus(result, "error")

\* C2: in src/backend/main.py, a run whose retrieval found no chunk contacts
\* no language-model backend and returns a non-empty message.
C2_EmptyRetrievalMakesNoLlmCall ==
    (variant = "backend" /\ pc = "returned" /\ relevant_docs = 0) =>
        /\ llm_calls = <<>>
        /\ raw = Missing
        /\ raised = "none"
        /\ HasText(result, "message")
C2_Witness ==
    /\ variant = "backend" /\ pc = "returned" /\ relevant_docs = 0
    /\ result = backend_NoDocsResult

\* C3: in src/backend/main.py, a model answer that is not JSON makes
\* generate_guide_from_rag return (not raise) a status "error" result without
\* steps, and image matching is not run.
C3_NonJsonAnswerGivesError ==
    (variant = "backend" /\ raw \in {RawGarbage, RawEmpty}) =>
        /\ pc = "returned"
        /\ raised = "none"
        /\ HasStatus(result, "error")
        /\ "steps" \notin DOMAIN result.d
        /\ search_args = Missing /\ step_idx = 0
C3_Witness ==
    /\ variant = "backend" /\ raw = RawGarbage /\ pc = "returned"
    /\ llm_calls /= <<>> /\ result = backend_GenerationFailed

\* the schema of section 4.2 of the specification, on a parsed answer
SchemaViolation(v) ==
    \/ v.t /= "obj"
    \/ "status" \notin DOMAIN v.d
    \/ /\ HasStatus(v, "success")
       /\ \/ StepsOf(v) = <<>>
          \/ \E i \in 1..Len(StepsOf(v)) : ~HasText(StepsOf(v)[i], "instruction")
    \/ HasStatus(v, "error") /\ ~HasText(v, "message")

\* C4: in src/backend/main.py, a model answer that is JSON but violates the
\* schema never yields a returned Guide of status "success".
C4_SchemaViolationNeverSuccess ==
    (variant = "backend" /\ pc = "returned" /\ raw.t = "json" /\ SchemaViolation(raw.v)) =>
        ~(raised = "none" /\ HasStatus(result, "success"))

WellFormedGuide(v) ==
    /\ v.t = "obj"
    /\ HasStatus(v, "success") \/ HasStatus(v, "error")
    /\ HasStatus(v, "success") => (HasText(v, "task_title") /\ StepsOf(v) /= <<>>)
    /\ HasStatus(v, "error") => HasText(v, "message")

\* C5: every Guide src/backend/main.py returns has status success or error,
\* with task_title and non-empty steps when success, with message when error.
C5_ReturnedGuideWellFormed ==
    (variant = "backend" /\ Returned) => WellFormedGuide(result)

\* C6: every reply of chat() is JSON, and every reply that is not a 200 has
\* status "error" and a non-empty message.
C6_EveryReplyIsStatusErrorJson ==
    (pc = "responded") =>
        /\ response.body.t /= "html"
        /\ response.code /= 200 =>
              (HasStatus(response.body, "error") /\ HasText(response.body, "message"))

ChunkIds == IF variant = "root" THEN root_ChunkIds(relevant_docs)
            ELSE backend_ChunkIds(relevant_docs)
Cited(step) ==
    IF step.t = "obj" /\ CiteKey(variant) \in DOMAIN step.d /\ step.d[CiteKey(variant)].t = "list"
    THEN { step.d[CiteKey(variant)].items[i].n : i \in 1..Len(step.d[CiteKey(variant)].items) }
    ELSE {}

\* C7: every chunk ID cited by a step of a returned Guide is the ID of a chunk
\* that was in the prompt.
C7_CitationsWithinSuppliedChunks ==
    (variant \in {"backend", "root"} /\ Returned) =>
        \A i \in 1..Len(StepsOf(result)) : Cited(StepsOf(result)[i]) \subseteq ChunkIds

\* C8: every match the image search returns scores above 0.35, and a search
\* of an empty corpus returns nothing.
C8_MatchesAboveThreshold ==
    /\ \A i \in 1..Len(matches) : matches[i].score > THRESHOLD
    /\ \A i \in 1..Len(matches) : matches[i].score = scores[matches[i].idx]
    /\ IMAGE_KB = <<>> => matches = <<>>
C8_Witness ==
    /\ pc = "searched"
    /\ matches /= <<>>
    /\ \E i \in 1..Len(top_indices) : scores[top_indices[i]] = THRESHOLD

\* C9: the image search returns at most top_k matches, in non-increasing
\* score order.
C9_AtMostTopKSortedDescending ==
    (pc = "searched") =>
        /\ Len(matches) <= search_args.top_k
        /\ \A i \in 1..Len(matches), j \in 1..Len(matches) :
              i < j => matches[i].score >= matches[j].score
C9_Witness ==
    /\ pc = "searched"
    /\ Len(IMAGE_KB) > search_args.top_k
    /\ Cardinality({ i \in 1..Len(scores) : scores[i] > THRESHOLD }) > search_args.top_k
    /\ Len(matches) = search_args.top_k
    /\ Len(matches) >= 2
    /\ matches[1].score > matches[Len(matches)].score

\* C10: of two records with equal score, the image search ranks the one
\* inserted earlier first, and never returns the later one without it.
C10_TiesInInsertionOrder ==
    (pc = "searched") =>
        \A a \in 1..Len(matches) :
            \A earlier \in 1..(matches[a].idx - 1) :
                scores[earlier] = matches[a].score =>
                    \E b \in 1..(a - 1) : matches[b].idx = earlier

\* the text the program searches the corpus with for a step of a Guide
StepQueryText(v, step) ==
    IF variant = "root" THEN root_query_text(v, step) ELSE backend_query_text(v, step)
\* the file_path of every loaded record whose score for the step is above
\* the threshold
ClearingPaths(v, step) ==
    { FilePath(i) : i \in { k \in 1..Len(IMAGE_EMBEDDINGS) :
          HasFilePath(k) /\ ScoreVector(StepQueryText(v, step))[k] > THRESHOLD } }
HasImagesKey(step) == step.t = "obj" /\ "images" \in DOMAIN step.d

\* C11: in every returned Guide, a step's images is None or a list of
\* file_path values of loaded records that scored above 0.35 for that step,
\* whatever the model put in that field.
C11_ImagesOnlyFromCorpusAboveThreshold ==
    (variant \in {"backend", "root"} /\ Returned) =>
        \A i \in 1..Len(StepsOf(result)) :
            HasImagesKey(StepsOf(result)[i]) =>
                LET im == StepsOf(result)[i].d["images"] IN
                \/ im = JNull
                \/ /\ im.t = "list"
                   /\ \A j \in 1..Len(im.items) :
                         im.items[j] \in ClearingPaths(result, StepsOf(result)[i])

\* the step the matching loop is at, and the text it has when the claim's
\* rule is applied to it: visual_description when present, else instruction
CurrentStep == step_data.d["steps"].items[step_idx]
DescriptionOrInstruction(step) ==
    IF "visual_description" \in DOMAIN step.d THEN step.d["visual_description"].s
    ELSE Get(step.d, "instruction", JStr("")).s
\* a turn of the matching loop that searched for CurrentStep and stored its images
MatchedOneStep == pc = "matching" /\ step_idx' = step_idx + 1

\* C12 as stated: the search text of a step is the task_title with the
\* step's visual_description when it has one, and with its instruction
\* otherwise.
C12_SearchTextPrefersVisualDescription ==
    [][MatchedOneStep =>
          search_args'.query_text =
              <<StepQueryText(step_data, CurrentStep)[1],
                DescriptionOrInstruction(CurrentStep)>>]_vars

\* C12 amended: src/main.py searches with the task_title (default "General")
\* and the step's visual_description when present, else its instruction;
\* src/backend/main.py searches with the task_title (default "") and the
\* step's instruction, whether or not the step has a visual_description.
C12_SearchTextPerProgram ==
    [][MatchedOneStep =>
          search_args'.query_text =
              (IF variant = "root"
               THEN <<Get(step_data.d, "task_title", JStr("General")).s,
                      DescriptionOrInstruction(CurrentStep)>>
               ELSE <<Get(step_data.d, "task_title", JStr("")).s,
                      Get(CurrentStep.d, "instruction", JStr("")).s>>)]_vars
\* src/backend/main.py searched for a step that has a visual_description
C12_Witness ==
    /\ variant = "backend"
    /\ pc \in {"matching", "finishing"}
    /\ step_idx >= 2
    /\ "visual_description" \in DOMAIN step_data.d["steps"].items[step_idx - 1].d
    /\ "images" \in DOMAIN step_data.d["steps"].items[step_idx - 1].d
    /\ search_args /= Missing
    /\ search_args.query_text[2] = step_data.d["steps"].items[step_idx - 1].d["instruction"].s
    /\ search_args.query_text[2] /=
          step_data.d["steps"].items[step_idx - 1].d["visual_description"].s

\* the number of records ranked before record idx when the ranking is by
\* descending score with ties in insertion order
RankedBefore(sc, idx) ==
    Cardinality({ j \in 1..Len(sc) : sc[j] > sc[idx] \/ (sc[j] = sc[idx] /\ j < idx) })

\* C13: a record that scores above 0.35 for a search text and is among the
\* 3 highest-scoring records is among the matches the search returns, which
\* are the step's images.
C13_TopScoringAboveThresholdReturned ==
    (pc = "searched" /\ search_args.top_k = TOP_K) =>
        \A idx \in 1..Len(scores) :
            (scores[idx] > THRESHOLD /\ RankedBefore(scores, idx) < TOP_K) =>
                \E a \in 1..Len(matches) : matches[a].idx = idx

\* the call got as far as image matching with a generated Guide object
MatchingEntered == step_idx >= 1 /\ step_data.t = "obj"

\* C14: once image matching has started on a generated Guide, the call
\* returns that Guide (with status success in src/backend/main.py) whatever
\* fails for a step or a record during matching.
C14_MatchingFailureKeepsGuide ==
    (variant \in {"backend", "root"} /\ pc = "returned" /\ MatchingEntered) =>
        /\ raised = "none"
        /\ result.t = "obj"
        /\ "steps" \in DOMAIN result.d
        /\ variant = "backend" => HasStatus(result, "success")

\* C15: in src/backend/main.py, when the parsed model answer has status
\* "error", image matching is not entered and the call returns that answer,
\* status "error" and the model's message included.
C15_ModelErrorSkipsMatching ==
    (variant = "backend" /\ raw.t = "json" /\ HasStatus(raw.v, "error")) =>
        /\ pc = "returned"
        /\ raised = "none"
        /\ step_idx = 0 /\ search_args = Missing
        /\ result = raw.v

\* a step that carries no image: no images key, None, or an empty list
NoImages(step) ==
    HasImagesKey(step) => step.d["images"] \in {JNull, JList(<<>>)}
CorpusAbsentOrEmpty == image_db_file \in {FileAbsent, FileJson(JList(<<>>))}

\* C16: when src/backend/main.py starts with the corpus file absent or
\* empty, startup succeeds with an empty index, and every call whose
\* generation succeeded returns status success with no image on any step.
C16_EmptyCorpusGuideHasNoImages ==
    (variant = "backend" /\ CorpusAbsentOrEmpty) =>
        /\ IMAGE_KB = <<>> /\ IMAGE_EMBEDDINGS = <<>>
        /\ pc /= "crashed"
        /\ (pc = "returned" /\ MatchingEntered) =>
              /\ raised = "none"
              /\ HasStatus(result, "success")
              /\ \A i \in 1..Len(StepsOf(result)) : NoImages(StepsOf(result)[i])

\* the call is past phase_1_generate_steps, after a non-empty retrieval
PastGeneration == pc \in {"matching", "finishing", "returned"} /\ relevant_docs > 0

\* C17 as stated: in src/backend/main.py every run with a non-empty
\* retrieval makes exactly one call to a language-model backend, in either
\* mode.
C17_ExactlyOneLlmCall ==
    (variant = "backend" /\ PastGeneration) => Len(llm_calls) = 1

\* C17 amended: a run never makes more than one call; after a non-empty
\* retrieval it has made exactly one, except in CLOUD mode without a
\* GROQ_API_KEY, where it has made none.
C17_OneLlmCallUnlessKeyMissing ==
    (variant = "backend") =>
        /\ Len(llm_calls) <= 1
        /\ PastGeneration =>
              Len(llm_calls) = (IF mode = "CLOUD" /\ ~GROQ_API_KEY THEN 0 ELSE 1)
C17_Witness ==
    /\ variant = "backend" /\ pc = "returned" /\ relevant_docs > 0
    /\ mode = "CLOUD" /\ GROQ_API_KEY
    /\ llm_calls = <<"groq">>
    /\ HasStatus(result, "success")

\* C18: in src/backend/main.py, once a call to an unreachable backend has
\* failed, the invocation has returned the generation-failure result, after
\* at most one retry; it is not left generating or retrying.
C18_UnreachableBackendFailsBounded ==
    (variant = "backend" /\ raw = RawFail) =>
        /\ pc = "returned"
        /\ raised = "none"
        /\ result = backend_GenerationFailed
        /\ step_idx = 0 /\ search_args = Missing
        /\ Len(llm_calls) \in 1..2           \* the first call, at most one retry
C18_Witness ==
    /\ variant = "backend" /\ raw = RawFail /\ pc = "returned"
    /\ mode = "LOCAL"
    /\ llm_calls = <<"ollama">>
    /\ HasStatus(result, "error") /\ HasText(result, "message")

\* the stages of one call of generate_guide_from_rag, in program order:
\* retrieving, generating, matching (with the status assignment that ends
\* it), returned (done or failed)
RunStages == {"retrieving", "generating", "matching", "finishing", "returned"}
StageRank(p) ==
    CASE p = "retrieving" -> 1
      [] p = "generating" -> 2
      [] p = "matching" -> 3
      [] p = "finishing" -> 4
      [] p = "returned" -> 5
      [] OTHER -> 6

\* C19: a call moves through retrieving, generating, matching and returned
\* in that order and enters none of them twice; the model is called only
\* while generating, after a retrieval that returned chunks; matching starts
\* only from generating, on the parsed model answer; a call that has
\* returned does no further work.
C19_StagesInOrder ==
    [][/\ (pc \in RunStages /\ pc' /= pc) => StageRank(pc') > StageRank(pc)
       /\ (pc' \in RunStages /\ pc \notin RunStages) => pc' = "retrieving"
       /\ Len(llm_calls') > Len(llm_calls) =>
             (pc = "generating" /\ relevant_docs > 0 /\ llm_calls = <<>>)
       /\ (pc' = "matching" /\ pc /= "matching") =>
             /\ pc = "generating"
             /\ raw'.t = "json"
             /\ step_data' = json_loads(raw')
       /\ search_args' /= search_args => (pc = "matching" \/ pc' \notin RunStages)
       /\ pc = "returned" =>
             (pc' \in {"returned", "responded"} /\ llm_calls' \in {llm_calls, <<>>})]_vars
C19_Witness ==
    /\ variant = "backend" /\ pc = "returned" /\ raised = "none"
    /\ relevant_docs > 0
    /\ llm_calls /= <<>>
    /\ raw.t = "json"
    /\ search_args /= Missing
    /\ step_idx > Len(StepsOf(result)) /\ Len(StepsOf(result)) >= 1
    /\ HasStatus(result, "success")

\* what generate_guide_from_rag returns in src/backend/main.py when the
\* model's answer is the raw text r and phase 2 is not reached
FailedGenerationResult(r) ==
    IF not_step_data(phase_1_generate_steps(r)) THEN backend_GenerationFailed
    ELSE phase_1_generate_steps(r)

\* C20: in src/backend/main.py the result returned when the backend could
\* not be reached differs from the result returned for an answer that is not
\* JSON, and it carries no steps.
C20_FailureKindDistinguishable ==
    (variant = "backend" /\ pc = "returned" /\ raw = RawFail) =>
        /\ raised = "none"
        /\ "steps" \notin DOMAIN result.d
        /\ result /= FailedGenerationResult(RawGarbage)

\* C21: every request src/backend/main.py sends to a language model, in
\* LOCAL and in CLOUD mode, has temperature 0.0 and a response format that
\* forces JSON.
C21_TemperatureZeroJsonFormat ==
    (variant = "backend") =>
        \A i \in 1..Len(llm_requests) :
            /\ llm_requests[i].temperature = 0
            /\ llm_requests[i].format \in {"json", "json_object"}

\* what a request body says: its query (Missing when it has none) and its
\* mode (Missing when it gives none)
GivenQuery(data) == IF data.t = "obj" THEN Get(data.d, "query", Missing) ELSE Missing
GivenMode(data) == IF data.t = "obj" THEN Get(data.d, "mode", Missing) ELSE Missing
ValidMode(m) == m.t = "str" /\ Upper(m.s) \in {"CLOUD", "LOCAL"}
Rejected400 == pc' = "responded" /\ response'.code = 400

\* C22: chat(), for every request body other than JSON null: a missing or
\* empty query is answered 400 without calling the pipeline; so is a mode
\* that is neither CLOUD nor LOCAL (letter case aside); otherwise the
\* pipeline is called with the query and with the request's mode when it
\* gives one, the configured default mode when it gives none.
C22_ChatValidatesQueryAndMode ==
    [][(pc = "chat" /\ request /= JNull) =>
          IF ~Truthy(GivenQuery(request)) THEN Rejected400
          ELSE IF GivenMode(request) = Missing
               THEN pc' = "retrieving" /\ mode' = DEFAULT_MODE
                    /\ query' = GivenQuery(request).s
          ELSE IF ~ValidMode(GivenMode(request)) THEN Rejected400
          ELSE pc' = "retrieving" /\ mode' = Upper(GivenMode(request).s)
               /\ query' = GivenQuery(request).s]_vars

\* the text index directory was found missing while a query was processed
IndexFoundMissing == pc \in {"exited", "aborted"}

\* C23: when the text index directory is missing as a query is processed,
\* the process exits: no Guide and no reply for that query, no call to a
\* model, and nothing is handled afterwards.
C23_MissingIndexExitsProcess ==
    [][/\ IndexFoundMissing' =>
             /\ pc' = "exited"
             /\ result' = Missing /\ response' = Missing
             /\ llm_calls' = <<>>
       /\ IndexFoundMissing => pc' = pc]_vars

\* what generate_guide_from_rag of src/backend/main.py can return or raise
\* when it runs alone with n retrieved chunks and the model response r:
\* the function's statements in program order, for every order argsort may
\* give
RECURSIVE SoloMatch(_, _)
SoloMatch(sj, i) ==
    LET steps == Get(sj.d, "steps", JList(<<>>)).items IN
    IF i > Len(steps)
    THEN {[result |-> JObj(Put(sj.d, "status", JStr("success"))), raised |-> "none"]}
    ELSE IF steps[i].t /= "obj"
    THEN {[result |-> Missing, raised |-> "AttributeError"]}
    ELSE UNION {
           LET sc == ScoreVector(backend_query_text(sj, steps[i]))
               acc == Accepted(sc, TopIndices(order, TOP_K))
           IN  IF phase_2_step_raises(steps[i], acc)
               THEN {[result |-> Missing, raised |-> "KeyError"]}
               ELSE SoloMatch(SetStep(sj, i, JObj(Put(steps[i].d, "images",
                                                      backend_images(acc)))), i + 1)
           : order \in argsort(ScoreVector(backend_query_text(sj, steps[i]))) }
SoloOutcomes(n, r) ==
    IF not_relevant_docs(n) THEN {[result |-> backend_NoDocsResult, raised |-> "none"]}
    ELSE IF not_step_data(phase_1_generate_steps(r))
    THEN {[result |-> backend_GenerationFailed, raised |-> "none"]}
    ELSE IF phase_2_skips
    THEN (IF phase_1_generate_steps(r).t = "obj"
          THEN {[result |-> JObj(Put(phase_1_generate_steps(r).d, "status", JStr("success"))),
                 raised |-> "none"]}
          ELSE {[result |-> Missing, raised |-> "TypeError"]})
    ELSE IF phase_2_entry_raises(phase_1_generate_steps(r)) /= "none"
    THEN {[result |-> Missing, raised |-> phase_2_entry_raises(phase_1_generate_steps(r))]}
    ELSE SoloMatch(phase_1_generate_steps(r), 1)

\* C24: however concurrent calls of generate_guide_from_rag interleave,
\* IMAGE_KB and IMAGE_EMBEDDINGS stay as startup built them, and what each
\* call returns (or raises) is what the same call returns when it runs
\* alone.
C24_ConcurrentCallsIndependent ==
    (pc = "concurrent") =>
        /\ IMAGE_KB = backend_IMAGE_KB(image_db_file)
        /\ IMAGE_EMBEDDINGS = backend_IMAGE_EMBEDDINGS(image_db_file)
        /\ \A c \in 1..NumCalls :
              calls[c].pc = "returned" =>
                 [result |-> calls[c].result, raised |-> calls[c].raised]
                     \in SoloOutcomes(calls[c].relevant_docs, calls[c].raw)
\* two calls with different answers were both in image matching, and both
\* returned a Guide with images
C24_Witness ==
    /\ pc = "concurrent"
    /\ calls[1].pc = "returned" /\ calls[2].pc = "returned"
    /\ calls[1].raw /= calls[2].raw
    /\ HasStatus(calls[1].result, "success") /\ HasStatus(calls[2].result, "success")
    /\ calls[1].step_idx >= 2 /\ calls[2].step_idx >= 2
    /\ StepsOf(calls[1].result)[1].d["images"] /= JNull
    /\ StepsOf(calls[2].result)[1].d["images"] /= JNull

ExampleBase == IF variant = "root" THEN root_example_chunk_ids[1] ELSE backend_example_chunks[1]

\* C26: in src/backend/main.py and src/main.py the chunk IDs in the prompt
\* are the positions of the chunks in the retriever's order, counted from the
\* base the prompt's citation example uses: distinct, contiguous, in rank
\* order, so an ID resolves to exactly one chunk.
C26_ChunkIdsArePositionsFromExampleBase ==
    (variant \in {"backend", "root"} /\ relevant_docs > 0) =>
        /\ Len(context_labels) = relevant_docs
        /\ \A j \in 1..Len(context_labels) : context_labels[j] = ExampleBase + (j - 1)
        /\ \A j \in 1..Len(context_labels), k \in 1..Len(context_labels) :
              context_labels[j] = context_labels[k] => j = k
        /\ { context_labels[j] : j \in 1..Len(context_labels) } = ChunkIds
C26_Witness ==
    /\ variant = "backend" /\ Returned
    /\ relevant_docs = MaxDocs /\ Len(context_labels) >= 2
    /\ context_labels[1] /= context_labels[2]
    /\ \E i \in 1..Len(StepsOf(result)) :
          Cited(StepsOf(result)[i]) = {context_labels[1]}

\* a record the program can embed and quote: file_path is there, and (where
\* the caption reads detected_objects) building its caption does not raise
UsableRecord(r) ==
    /\ r.t = "obj" /\ "file_path" \in DOMAIN r.d
    /\ variant = "backend" => ~CaptionRaises(r)
\* record r was loaded and embedded under one index
AvailableForMatching(r) ==
    \E k \in DOMAIN IMAGE_KB \cap DOMAIN IMAGE_EMBEDDINGS :
        IMAGE_KB[k] = r /\ IMAGE_EMBEDDINGS[k] = combo_caption(r)

\* C27: when a run reaches image matching with a corpus file that was read,
\* every usable record of the file is loaded and embedded under one index,
\* no unusable record is, and IMAGE_KB and IMAGE_EMBEDDINGS have the same
\* length whenever a search scores the corpus.
C27_UsableRecordsStayAvailable ==
    (variant \in {"backend", "root"} /\ image_db_file.t = "json" /\ PastGeneration) =>
        /\ \A i \in DOMAIN image_db_file.v.items :
              UsableRecord(image_db_file.v.items[i])
                  <=> AvailableForMatching(image_db_file.v.items[i])
        /\ scores /= <<>> => Len(IMAGE_KB) = Len(IMAGE_EMBEDDINGS)

\* a step, and a Guide, with every step's images field left out
StepOutsideImages(step) ==
    IF step.t = "obj"
    THEN JObj([k \in DOMAIN step.d \ {"images"} |-> step.d[k]])
    ELSE step
OutsideImages(v) ==
    IF v.t = "obj" /\ "steps" \in DOMAIN v.d /\ v.d["steps"].t = "list"
    THEN JObj(Put(v.d, "steps",
                  JList([i \in 1..Len(v.d["steps"].items) |->
                            StepOutsideImages(v.d["steps"].items[i])])))
    ELSE v
\* the Guide as json.loads built it from the model's answer
ParsedOutput == json_loads(raw)

\* C28: during and after image matching the Guide differs from the parsed
\* model output in the images fields of its steps only: same steps in the
\* same order, same step numbers, instructions and citations, same
\* task_title (and, in src/backend/main.py, the status added afterwards).
C28_MatchingChangesOnlyImages ==
    /\ (/\ variant \in {"backend", "root"}
        /\ MatchingEntered
        /\ pc \in {"matching", "finishing"} \/ (variant = "root" /\ pc = "returned"))
           => OutsideImages(step_data) = OutsideImages(ParsedOutput)
    /\ (variant = "backend" /\ Returned /\ MatchingEntered)
           => OutsideImages(result) =
                 OutsideImages(JObj(Put(ParsedOutput.d, "status", JStr("success"))))
    /\ (variant = "root" /\ Returned /\ MatchingEntered /\ result /= root_InferenceError)
           => OutsideImages(result) = OutsideImages(ParsedOutput)
\* matching stored images on both steps of a two-step Guide
C28_Witness ==
    /\ variant = "backend" /\ pc = "finishing"
    /\ Len(StepsOf(step_data)) = 2
    /\ \A i \in 1..2 : /\ HasImagesKey(StepsOf(step_data)[i])
                        /\ StepsOf(step_data)[i] /= StepsOf(ParsedOutput)[i]
    /\ StepsOf(step_data)[1].d["images"].t = "list"

\* the text the backend sent back, when it sent one
ReceivedText(r) == IF r = RawEmpty THEN "" ELSE "garbage"

\* C29: in src/backend/main_local_llm.py a call whose model request failed
\* or whose answer did not parse returns, without raising, a result with an
\* error key and a raw_response that is the received text, or "No Response"
\* when the request itself failed.
C29_LocalFailureReturnsErrorResult ==
    (variant = "local_llm" /\ pc = "returned" /\ relevant_docs > 0
        /\ (raw = RawFail \/ json_loads_raises(raw))) =>
        /\ raised = "none"
        /\ result.t = "obj"
        /\ "error" \in DOMAIN result.d
        /\ "raw_response" \in DOMAIN result.d
        /\ result.d["raw_response"] =
              JStr(IF raw = RawFail THEN "No Response" ELSE ReceivedText(raw))

\* the backends contacted since the request arrived
Contacted == { llm_calls[i] : i \in 1..Len(llm_calls) }

\* C30: in src/backend/main.py the mode of the invocation alone decides which
\* backend is contacted: LOCAL contacts only Ollama, CLOUD only Groq, no
\* invocation contacts both, and a CLOUD invocation without an API key
\* contacts none and returns a Guide with status "error".
C30_ModeSelectsBackend ==
    variant = "backend" =>
        /\ mode = "LOCAL" => Contacted \subseteq {"ollama"}
        /\ mode = "CLOUD" => Contacted \subseteq {"groq"}
        /\ Cardinality(Contacted) <= 1
        /\ (mode = "LOCAL" /\ PastGeneration) => Contacted = {"ollama"}
        /\ (mode = "CLOUD" /\ GROQ_API_KEY /\ PastGeneration) => Contacted = {"groq"}
        /\ (mode = "CLOUD" /\ ~GROQ_API_KEY /\ PastGeneration) =>
              /\ llm_calls = <<>>
              /\ pc = "returned" /\ raised = "none"
              /\ HasStatus(result, "error")
\* a CLOUD invocation without a key came back with the error Guide
C30_Witness ==
    /\ variant = "backend" /\ mode = "CLOUD" /\ ~GROQ_API_KEY
    /\ Returned /\ relevant_docs > 0
    /\ llm_calls = <<>>
    /\ result = backend_GenerationFailed

====
